---- MODULE Spec2Model ----
(***************************************************************************)
(* Area characterization client                                            *)
(* (xls/contrib/integrator/area_model/area_characterization_client_main.py)*)
(*                                                                         *)
(* run_characterization drives a list of sweep strategies.  Every strategy *)
(* registers one op-model entry, then walks its parameter ranges; for each *)
(* point it prints a progress line, sends one blocking Compile request to  *)
(* the synthesis server and turns the response into a DataPoint.  After    *)
(* the last strategy the free ops are added and the model is printed.      *)
(*                                                                         *)
(* The process is single threaded; its only blocking point is              *)
(* stub.Compile.  pc is the position of the process:                       *)
(*   "driver"   in run_characterization, between two strategy calls        *)
(*   "sweep"    in a strategy, at the head of its (innermost) loop         *)
(*   "waiting"  blocked in stub.Compile                                    *)
(*   "done"     run_characterization has returned                          *)
(*   "aborted"  an exception of stub.Compile has left run_characterization *)
(***************************************************************************)
EXTENDS Integers, Sequences, FiniteSets, TLC

VARIABLES
  plan,         \* the strategy calls run_characterization makes, in order
  stub,         \* the cell histogram the synthesis server answers with
  pc,           \* position of the process
  stratIdx,     \* index in plan of the current / next strategy call
  ptIdx,        \* index of the next point of the current strategy's sweep
  frame,        \* the arguments of the latest _build_data_point call
  results,      \* the local list `results` of the running _run_nary_op call
  model,        \* the DelayModel being built: op_models and data_points
  stdout,       \* what print has written, one entry per print call
  outstanding,  \* the Compile requests sent and not yet answered
  sent,         \* number of Compile requests sent so far
  answered,     \* number of Compile requests the server has answered
  failed        \* number of Compile requests that raised

vars == <<plan, stub, pc, stratIdx, ptIdx, frame, results, model, stdout,
          outstanding, sent, answered, failed>>

----------------------------------------------------------------------------
(* Module-level constants of the client.                                   *)

flat_bit_count_sweep_ceiling == 65
operand_count_sweep_ceiling == 16
base_loop_stride == 2

(* Largest count the modelled server reports for one cell type.            *)
MaxCount == 7

(* The cell type _record_area reads.                                       *)
LutCell == "SB_LUT4"

(* 'a b c'.split() of one string literal, as the list of its words.  Two   *)
(* adjacent literals are one string: with no blank at the seam the last    *)
(* word of the first and the first word of the second are ONE word.        *)
AdjacentLiterals(a, b) ==
  SubSeq(a, 1, Len(a) - 1) \o <<a[Len(a)] \o b[1]>> \o SubSeq(b, 2, Len(b))

SLE_ALIASES ==
  <<"kSLt", "kSGe", "kSGt", "kULe", "kULt", "kUGe", "kNe", "kEq", "kNeg",
    "kDecode">>

FREE_OPS ==
  AdjacentLiterals(
    <<"kArray", "kArrayConcat", "kArrayIndex", "kBitSlice", "kConcat",
      "kIdentity">>,
    <<"kLiteral", "kParam", "kReverse", "kTuple", "kTupleIndex", "kZeroExt">>)

----------------------------------------------------------------------------
(* Python helpers.                                                         *)

(* list(range(start, stop, step)) for step > 0.                            *)
Range(start, stop, step) ==
  LET n == IF stop > start THEN (stop - start + step - 1) \div step ELSE 0
  IN  [i \in 1..n |-> start + (i - 1) * step]

(* [x] * n                                                                 *)
Repeat(x, n) == [i \in 1..n |-> x]

(* The concatenation of a sequence of sequences: the order in which nested *)
(* loops visit their bodies.                                               *)
RECURSIVE Flatten(_)
Flatten(ss) == IF ss = <<>> THEN <<>> ELSE Head(ss) \o Flatten(Tail(ss))

(* bits.min_bit_count_unsigned(value): the number of bits needed to hold   *)
(* value as an unsigned number (0 for 0).                                  *)
RECURSIVE min_bit_count_unsigned(_)
min_bit_count_unsigned(value) ==
  IF value = 0 THEN 0 ELSE 1 + min_bit_count_unsigned(value \div 2)

str(n) == ToString(n)

----------------------------------------------------------------------------
(* One iteration of a sweep loop: the progress line it prints and the      *)
(* arguments of its _build_data_point call.  local says that the datapoint *)
(* goes to the `results` list of _run_nary_op (not to the model), returns  *)
(* that this is the last iteration of that _run_nary_op call.              *)

Point(line, op, kop, num_node_bits, num_operand_bits, attributes, operand_attributes, operand_span_attributes, local, returns) ==
  [line |-> line, op |-> op, kop |-> kop, num_node_bits |-> num_node_bits,
   num_operand_bits |-> num_operand_bits, attributes |-> attributes,
   operand_attributes |-> operand_attributes,
   operand_span_attributes |-> operand_span_attributes,
   literal_operand |-> "None", local |-> local, returns |-> returns]

_run_nary_op(op, kop, num_inputs) ==
  LET bit_counts == Range(1, flat_bit_count_sweep_ceiling, base_loop_stride)
  IN  [i \in 1..Len(bit_counts) |->
        LET bit_count == bit_counts[i]
        IN  Point("# nary_op: " \o op \o ", " \o str(bit_count) \o " bits, "
                    \o str(num_inputs) \o " inputs",
                  op, kop, bit_count, Repeat(bit_count, num_inputs),
                  <<>>, <<>>, <<>>, TRUE, i = Len(bit_counts))]

(* Faulty variant: the binary sweep passes one input, as the unary one.    *)
_run_bin_op_sweep_one_input(op, kop) == _run_nary_op(op, kop, 1)

_run_bin_op_sweep(op, kop) == _run_nary_op(op, kop, 2)

_run_unary_op_sweep(op, kop) == _run_nary_op(op, kop, 1)

_run_nary_op_sweep(op, kop) ==
  LET input_counts ==
        Range(1, operand_count_sweep_ceiling, base_loop_stride)
  IN  Flatten([i \in 1..Len(input_counts) |->
                 _run_nary_op(op, kop, input_counts[i])])

_run_single_bit_result_op_sweep(op, kop, num_inputs) ==
  LET input_bitss == Range(1, flat_bit_count_sweep_ceiling, base_loop_stride)
  IN  [i \in 1..Len(input_bitss) |->
        LET input_bits == input_bitss[i]
        IN  Point("# reduction_op: " \o op \o ", " \o str(input_bits)
                    \o " bits",
                  op, kop, 1, Repeat(input_bits, num_inputs),
                  <<>>, <<>>, <<>>, FALSE, FALSE)]

(* Faulty variant: the default attribute names the last case operand and  *)
(* no extra operand is added.                                              *)
_run_select_op_point_default_in_span(op, kop, num_cases, bit_count) ==
  LET line == "# select_op: " \o op \o ", " \o str(bit_count) \o " bits, "
                \o str(num_cases) \o " cases"
      select_bits == min_bit_count_unsigned(num_cases - 1)
  IN  Point(line, op, kop, bit_count,
            <<select_bits>> \o Repeat(bit_count, num_cases), <<>>,
            IF 2 ^ select_bits = num_cases THEN <<>>
            ELSE <<<<"default", num_cases>>>>,
            <<<<"cases", 1, num_cases>>>>, FALSE, FALSE)

_run_select_op_point(op, kop, num_cases, bit_count) ==
  LET line == "# select_op: " \o op \o ", " \o str(bit_count) \o " bits, "
                \o str(num_cases) \o " cases"
      cases_span_attribute == <<"cases", 1, num_cases>>
      select_bits == min_bit_count_unsigned(num_cases - 1)
  IN  IF 2 ^ select_bits = num_cases
      THEN Point(line, op, kop, bit_count,
                 <<select_bits>> \o Repeat(bit_count, num_cases),
                 <<>>, <<>>, <<cases_span_attribute>>, FALSE, FALSE)
      ELSE LET default_attribute == <<"default", num_cases + 1>>
           IN  Point(line, op, kop, bit_count,
                     <<select_bits>> \o Repeat(bit_count, num_cases + 1),
                     <<>>, <<default_attribute>>, <<cases_span_attribute>>,
                     FALSE, FALSE)

_run_select_op_sweep(op, kop) ==
  LET num_casess == Range(2, operand_count_sweep_ceiling, base_loop_stride)
      bit_counts == Range(1, flat_bit_count_sweep_ceiling, base_loop_stride)
  IN  Flatten([i \in 1..Len(num_casess) |->
                 [j \in 1..Len(bit_counts) |->
                    _run_select_op_point(op, kop, num_casess[i],
                                         bit_counts[j])]])

_run_one_hot_select_op_sweep(op, kop) ==
  LET num_casess == Range(2, operand_count_sweep_ceiling, base_loop_stride)
      bit_counts == Range(1, flat_bit_count_sweep_ceiling, base_loop_stride)
  IN  Flatten([i \in 1..Len(num_casess) |->
                 [j \in 1..Len(bit_counts) |->
                    LET num_cases == num_casess[i]
                        bit_count == bit_counts[j]
                        select_bits == num_cases
                    IN  Point("# one_hot_select_op: " \o op \o ", "
                                \o str(bit_count) \o " bits, "
                                \o str(num_cases) \o " cases",
                              op, kop, bit_count,
                              <<select_bits>> \o Repeat(bit_count, num_cases),
                              <<>>, <<>>, <<<<"cases", 1, num_cases>>>>,
                              FALSE, FALSE)]])

(* Faulty variant: the result width is the bit length of input_bits.       *)
_run_encode_op_sweep_no_minus_one(op, kop) ==
  LET input_bitss == Range(2, flat_bit_count_sweep_ceiling, base_loop_stride)
  IN  [i \in 1..Len(input_bitss) |->
        Point("# encode_op: " \o op \o ", " \o str(input_bitss[i])
                \o " input bits",
              op, kop, min_bit_count_unsigned(input_bitss[i]),
              <<input_bitss[i]>>, <<>>, <<>>, <<>>, FALSE, FALSE)]

_run_encode_op_sweep(op, kop) ==
  LET input_bitss == Range(2, flat_bit_count_sweep_ceiling, base_loop_stride)
  IN  [i \in 1..Len(input_bitss) |->
        LET input_bits == input_bitss[i]
            node_bits == min_bit_count_unsigned(input_bits - 1)
        IN  Point("# encode_op: " \o op \o ", " \o str(input_bits)
                    \o " input bits",
                  op, kop, node_bits, <<input_bits>>,
                  <<>>, <<>>, <<>>, FALSE, FALSE)]

_run_decode_op_sweep(op, kop) ==
  LET node_bitss == Range(2, flat_bit_count_sweep_ceiling, base_loop_stride)
  IN  [i \in 1..Len(node_bitss) |->
        LET node_bits == node_bitss[i]
            input_bits == min_bit_count_unsigned(node_bits - 1)
        IN  Point("# decode_op: " \o op \o ", " \o str(node_bits) \o " bits",
                  op, kop, node_bits, <<input_bits>>,
                  <<<<"width", str(node_bits)>>>>, <<>>, <<>>, FALSE, FALSE)]

(* Faulty variant: start_bits advances by the base stride.                 *)
_run_dynamic_bit_slice_op_sweep_base_stride(op, kop) ==
  LET start_bitss ==
        Range(2, min_bit_count_unsigned(flat_bit_count_sweep_ceiling - 1),
              base_loop_stride)
  IN  Flatten([i \in 1..Len(start_bitss) |->
        LET start_bits == start_bitss[i]
            input_bits == 2 ^ start_bits
            node_bitss == Range(1, input_bits, base_loop_stride ^ 2)
        IN  [j \in 1..Len(node_bitss) |->
              Point("# encode_op: " \o op \o ", " \o str(start_bits)
                      \o " start bits, " \o str(input_bits)
                      \o " input_bits, " \o str(node_bitss[j]) \o " width",
                    op, kop, node_bitss[j], <<input_bits, start_bits>>,
                    <<<<"width", str(node_bitss[j])>>>>, <<>>, <<>>,
                    FALSE, FALSE)]])

_run_dynamic_bit_slice_op_sweep(op, kop) ==
  LET start_bitss ==
        Range(2, min_bit_count_unsigned(flat_bit_count_sweep_ceiling - 1),
              base_loop_stride ^ 2)
  IN  Flatten([i \in 1..Len(start_bitss) |->
        LET start_bits == start_bitss[i]
            input_bits == 2 ^ start_bits
            node_bitss == Range(1, input_bits, base_loop_stride ^ 2)
        IN  [j \in 1..Len(node_bitss) |->
              LET node_bits == node_bitss[j]
              IN  Point("# encode_op: " \o op \o ", " \o str(start_bits)
                          \o " start bits, " \o str(input_bits)
                          \o " input_bits, " \o str(node_bits) \o " width",
                        op, kop, node_bits, <<input_bits, start_bits>>,
                        <<<<"width", str(node_bits)>>>>, <<>>, <<>>,
                        FALSE, FALSE)]])

_run_one_hot_op_sweep(op, kop) ==
  LET bit_counts == Range(1, flat_bit_count_sweep_ceiling, base_loop_stride)
  IN  [i \in 1..Len(bit_counts) |->
        LET bit_count == bit_counts[i]
        IN  Point("# one_hot: " \o op \o ", " \o str(bit_count)
                    \o " input bits",
                  op, kop, bit_count + 1, <<bit_count>>,
                  <<<<"lsb_prio", "true">>>>, <<>>, <<>>, FALSE, FALSE)]

_run_sign_ext_op_sweep(op, kop) ==
  LET node_counts == Range(2, flat_bit_count_sweep_ceiling,
                           base_loop_stride * (2 ^ 2))
  IN  Flatten([i \in 1..Len(node_counts) |->
        LET node_count == node_counts[i]
            input_counts == Range(1, node_count - 1,
                                  base_loop_stride * (2 ^ 2))
        IN  [j \in 1..Len(input_counts) |->
              LET input_count == input_counts[j]
              IN  Point("# sign_ext: " \o op \o ", " \o str(input_count)
                          \o " input bits, " \o str(node_count)
                          \o " output_bits",
                        op, kop, node_count, <<input_count>>,
                        <<<<"new_bit_count", str(node_count)>>>>, <<>>, <<>>,
                        FALSE, FALSE)]])

(* Faulty variant: the stride of the sign-extend sweep, 2 * 2**2.          *)
_run_mul_op_sweep_stride_8(op, kop) ==
  LET counts == Range(2, flat_bit_count_sweep_ceiling,
                      base_loop_stride * (2 ^ 2))
  IN  Flatten(Flatten([i \in 1..Len(counts) |->
        [j \in 1..Len(counts) |->
          [k \in 1..Len(counts) |->
            Point("# mul: " \o op \o ", " \o str(counts[i]) \o " * "
                    \o str(counts[j]) \o " -> " \o str(counts[k]),
                  op, kop, counts[k], <<counts[i], counts[j]>>,
                  <<>>, <<>>, <<>>, FALSE, FALSE)]]]))

_run_mul_op_sweep(op, kop) ==
  LET counts == Range(2, flat_bit_count_sweep_ceiling,
                      base_loop_stride * (2 ^ 3))
  IN  Flatten(Flatten([i \in 1..Len(counts) |->
        [j \in 1..Len(counts) |->
          [k \in 1..Len(counts) |->
            LET mplier_count == counts[i]
                mcand_count == counts[j]
                node_count == counts[k]
            IN  Point("# mul: " \o op \o ", " \o str(mplier_count) \o " * "
                        \o str(mcand_count) \o " -> " \o str(node_count),
                      op, kop, node_count, <<mplier_count, mcand_count>>,
                      <<>>, <<>>, <<>>, FALSE, FALSE)]]]))

----------------------------------------------------------------------------
(* The DelayFactor lists the strategies register (declaration order).      *)

RESULT_BIT_COUNT == [source |-> "RESULT_BIT_COUNT"]
OPERAND_COUNT == [source |-> "OPERAND_COUNT"]
OPERAND_BIT_COUNT(n) == [source |-> "OPERAND_BIT_COUNT", operand_number |-> n]

(* A strategy call: fn names the _run_*_op_and_add function.               *)
Call(fn, op, kop) == [fn |-> fn, op |-> op, kop |-> kop]

(* Faulty variant: mul registers operand 1 before operand 0.               *)
FactorsMulOperandsSwapped(fn) ==
  IF fn = "mul"
  THEN <<RESULT_BIT_COUNT, OPERAND_BIT_COUNT(1), OPERAND_BIT_COUNT(0)>>
  ELSE IF fn \in {"bin", "unary", "decode"} THEN <<RESULT_BIT_COUNT>>
  ELSE IF fn \in {"nary", "select", "one_hot_select"}
       THEN <<RESULT_BIT_COUNT, OPERAND_COUNT>>
  ELSE IF fn \in {"dynamic_bit_slice", "sign_ext"}
       THEN <<RESULT_BIT_COUNT, OPERAND_BIT_COUNT(0)>>
  ELSE <<OPERAND_BIT_COUNT(0)>>

(* The factors fn adds to the op-model entry it creates.                   *)
Factors(fn) ==
  CASE fn = "bin" -> <<RESULT_BIT_COUNT>>
    [] fn = "unary" -> <<RESULT_BIT_COUNT>>
    [] fn = "nary" -> <<RESULT_BIT_COUNT, OPERAND_COUNT>>
    [] fn = "reduction" -> <<OPERAND_BIT_COUNT(0)>>
    [] fn = "comparison" -> <<OPERAND_BIT_COUNT(0)>>
    [] fn = "select" -> <<RESULT_BIT_COUNT, OPERAND_COUNT>>
    [] fn = "one_hot_select" -> <<RESULT_BIT_COUNT, OPERAND_COUNT>>
    [] fn = "encode" -> <<OPERAND_BIT_COUNT(0)>>
    [] fn = "decode" -> <<RESULT_BIT_COUNT>>
    [] fn = "dynamic_bit_slice" -> <<RESULT_BIT_COUNT, OPERAND_BIT_COUNT(0)>>
    [] fn = "one_hot" -> <<OPERAND_BIT_COUNT(0)>>
    [] fn = "sign_ext" -> <<RESULT_BIT_COUNT, OPERAND_BIT_COUNT(0)>>
    [] fn = "mul" -> <<RESULT_BIT_COUNT, OPERAND_BIT_COUNT(0), OPERAND_BIT_COUNT(1)>>

(* The loop iterations of a strategy call, in the order it makes them.     *)
Sweep(call) ==
  CASE call.fn = "bin" -> _run_bin_op_sweep(call.op, call.kop)
    [] call.fn = "unary" -> _run_unary_op_sweep(call.op, call.kop)
    [] call.fn = "nary" -> _run_nary_op_sweep(call.op, call.kop)
    [] call.fn = "reduction" -> _run_single_bit_result_op_sweep(call.op, call.kop, 1)
    [] call.fn = "comparison" -> _run_single_bit_result_op_sweep(call.op, call.kop, 2)
    [] call.fn = "select" -> _run_select_op_sweep(call.op, call.kop)
    [] call.fn = "one_hot_select" -> _run_one_hot_select_op_sweep(call.op, call.kop)
    [] call.fn = "encode" -> _run_encode_op_sweep(call.op, call.kop)
    [] call.fn = "decode" -> _run_decode_op_sweep(call.op, call.kop)
    [] call.fn = "dynamic_bit_slice" -> _run_dynamic_bit_slice_op_sweep(call.op, call.kop)
    [] call.fn = "one_hot" -> _run_one_hot_op_sweep(call.op, call.kop)
    [] call.fn = "sign_ext" -> _run_sign_ext_op_sweep(call.op, call.kop)
    [] call.fn = "mul" -> _run_mul_op_sweep(call.op, call.kop)

(* The calls run_characterization makes as the file stands: the mul ops.   *)
MulCalls == <<Call("mul", "smul", "kSMul"), Call("mul", "umul", "kUMul")>>

(* The calls of the block run_characterization holds in a string literal   *)
(* (a no-op statement): they run only when that block is re-enabled.       *)
DisabledCalls ==
  << Call("bin", "add", "kAdd"), Call("bin", "sdiv", "kSDiv"),
     Call("bin", "smod", "kSMod"), Call("bin", "shll", "kShll"),
     Call("bin", "shrl", "kShrl"), Call("bin", "shra", "kShra"),
     Call("bin", "sub", "kSub"), Call("bin", "udiv", "kUDiv"),
     Call("bin", "umod", "kUMod"),
     Call("unary", "neg", "kNeg"), Call("unary", "not", "kNot"),
     Call("nary", "and", "kAnd"), Call("nary", "nand", "kNAnd"),
     Call("nary", "nor", "kNor"), Call("nary", "or", "kOr"),
     Call("nary", "xor", "kXor"),
     Call("reduction", "and_reduce", "kAndReduce"),
     Call("reduction", "or_reduce", "kOrReduce"),
     Call("reduction", "xor_reduce", "kXorReduce"),
     Call("comparison", "eq", "kEq"), Call("comparison", "ne", "kNe"),
     Call("comparison", "sge", "kSGe"), Call("comparison", "sgt", "kSGt"),
     Call("comparison", "sle", "kSLe"), Call("comparison", "slt", "kSLt"),
     Call("comparison", "uge", "kUGe"), Call("comparison", "ugt", "kUGt"),
     Call("comparison", "ule", "kULe"), Call("comparison", "ult", "kULt"),
     Call("select", "sel", "kSel"),
     Call("one_hot_select", "one_hot_sel", "kOneHotSel"),
     Call("encode", "encode", "kEncode"), Call("decode", "decode", "kDecode"),
     Call("dynamic_bit_slice", "dynamic_bit_slice", "kDynamicBitSlice"),
     Call("one_hot", "one_hot", "kOneHot"),
     Call("sign_ext", "sign_ext", "kSignExt") >>

DefaultPlan == MulCalls

EnabledPlan == DisabledCalls \o MulCalls

----------------------------------------------------------------------------
(* _build_data_point and what it calls.                                    *)

(* op_module_generator: pure functions of their arguments; the text they   *)
(* produce is kept as the term that produces it.                           *)
generate_ir_package(op, op_type, operand_types, attributes, operand_attributes, operand_span_attributes, literal_operand) ==
  [op |-> op, op_type |-> op_type, operand_types |-> operand_types,
   attributes |-> attributes, operand_attributes |-> operand_attributes,
   operand_span_attributes |-> operand_span_attributes,
   literal_operand |-> literal_operand]

generate_verilog_module(module_name, ir_text) ==
  [module_name |-> module_name, ir_text |-> ir_text]

generate_parallel_module(modules, top_name) ==
  [modules |-> modules, top_name |-> top_name]

(* f'bits[{n}]'                                                            *)
BitsType(n) == "bits[" \o str(n) \o "]"

(* The CompileRequest _build_data_point has _synth send for a point.       *)
BuildRequest(p) ==
  LET op_type == BitsType(p.num_node_bits)
      operand_types ==
        [i \in 1..Len(p.num_operand_bits) |-> BitsType(p.num_operand_bits[i])]
      ir_text == generate_ir_package(p.op, op_type, operand_types,
                   p.attributes, p.operand_attributes,
                   p.operand_span_attributes, p.literal_operand)
      module_name == p.op \o "_" \o str(p.num_node_bits)
      mod_generator_result == generate_verilog_module(module_name, ir_text)
      top_name == module_name \o "_wrapper"
      verilog_text == generate_parallel_module(<<mod_generator_result>>,
                                               top_name)
  IN  [module_text |-> verilog_text, top_module_name |-> top_name]

(* A CompileResponse holding the cell histogram h (a function from the     *)
(* cell types present to their counts).                                    *)
CompileResponse(h) == [instance_count |-> [cell_histogram |-> h]]

(* Faulty variant: the count of another cell type is read.                 *)
_record_area_carry_cell(response) ==
  LET cell_histogram == response.instance_count.cell_histogram
  IN  IF "SB_CARRY" \in DOMAIN cell_histogram
      THEN cell_histogram["SB_CARRY"]
      ELSE 0

(* The value _record_area stores in result.delay.                          *)
_record_area(response) ==
  LET cell_histogram == response.instance_count.cell_histogram
  IN  IF LutCell \in DOMAIN cell_histogram
      THEN cell_histogram[LutCell]
      ELSE 0

(* The DataPoint _build_data_point returns for a point and a response.     *)
_build_data_point(p, response) ==
  [operation |->
     [op |-> p.kop, bit_count |-> p.num_node_bits,
      operands |-> [i \in 1..Len(p.num_operand_bits) |->
                      [bit_count |-> p.num_operand_bits[i]]]],
   delay |-> _record_area(response)]

----------------------------------------------------------------------------
(* The synthesis server, as far as the client sees it.                     *)

CellTypes == {LutCell, "SB_CARRY"}

(* Every histogram over CellTypes with counts up to MaxCount.              *)
Histograms == UNION {[S -> 0..MaxCount] : S \in SUBSET CellTypes}

(* The histograms the server of a whole run answers with: each cell type   *)
(* is absent or present.                                                   *)
StubHistograms == UNION {[S -> {MaxCount}] : S \in SUBSET CellTypes}

----------------------------------------------------------------------------
(* The process.                                                            *)

CurrentCall == plan[stratIdx]

(* The sweep of every call of the file, tabulated once.                    *)
Calls == {EnabledPlan[i] : i \in 1..Len(EnabledPlan)}

SweepTable == [c \in Calls |-> Sweep(c)]

CurrentSweep == SweepTable[CurrentCall]

CurrentPoint == CurrentSweep[ptIdx]

(* print(x) of a str, and print(model): str(model) is protobuf's text      *)
(* format of the message, kept as the message it renders.                  *)
PrintStr(s) == [str |-> s]

PrintModel(m) == [DelayModel |-> m]

SchemaHeader ==
  << PrintStr("# proto-file: xls/delay_model/delay_model.proto"),
     PrintStr("# proto-message: xls.delay_model.DelayModel") >>

LookupEntry(kop, factors) ==
  [op |-> kop, estimator |-> [lookup |-> [factors |-> factors]]]

FixedEntry(op, n) == [op |-> op, estimator |-> [fixed |-> n]]

FreeEntries == [i \in 1..Len(FREE_OPS) |-> FixedEntry(FREE_OPS[i], 0)]

Start ==
  /\ pc = "driver"
  /\ stratIdx = 1
  /\ ptIdx = 1
  /\ frame = <<>>
  /\ results = <<>>
  /\ model = [op_models |-> <<>>, data_points |-> <<>>]
  /\ stdout = <<>>
  /\ outstanding = <<>>
  /\ sent = 0
  /\ answered = 0
  /\ failed = 0

(* run_characterization as the file stands.                                *)
Init ==
  /\ plan = DefaultPlan
  /\ stub \in StubHistograms
  /\ Start

(* The configurations of run_characterization: the file as it stands, its  *)
(* disabled block enabled as a whole, or one call of the file alone.       *)
Plans == {DefaultPlan, EnabledPlan} \cup {<<c>> : c \in Calls}

InitAll ==
  /\ plan \in Plans
  /\ stub \in StubHistograms
  /\ Start

(* Faulty variant: the schema header is printed when the first strategy   *)
(* starts.                                                                 *)
BeginStrategyPrintsHeader ==
  /\ pc = "driver"
  /\ stratIdx <= Len(plan)
  /\ model' = [model EXCEPT !.op_models =
                 Append(@, LookupEntry(CurrentCall.kop, Factors(CurrentCall.fn)))]
  /\ stdout' = IF stratIdx = 1 THEN stdout \o SchemaHeader ELSE stdout
  /\ ptIdx' = 1
  /\ pc' = "sweep"
  /\ UNCHANGED <<plan, stub, stratIdx, frame, results, outstanding, sent,
                 answered, failed>>

(* A strategy is called: it adds its op-model entry with its factors and   *)
(* reaches its loop.                                                       *)
BeginStrategy ==
  /\ pc = "driver"
  /\ stratIdx <= Len(plan)
  /\ model' = [model EXCEPT !.op_models =
                 Append(@, LookupEntry(CurrentCall.kop, Factors(CurrentCall.fn)))]
  /\ ptIdx' = 1
  /\ pc' = "sweep"
  /\ UNCHANGED <<plan, stub, stratIdx, frame, results, stdout, outstanding,
                 sent, answered, failed>>

(* One loop iteration up to the blocking call: the progress line is        *)
(* printed, the request is built and sent.                                 *)
IssueRequest ==
  /\ pc = "sweep"
  /\ ptIdx <= Len(CurrentSweep)
  /\ stdout' = Append(stdout, PrintStr(CurrentPoint.line))
  /\ frame' = CurrentPoint
  /\ outstanding' = Append(outstanding, BuildRequest(frame'))
  /\ sent' = sent + 1
  /\ pc' = "waiting"
  /\ UNCHANGED <<plan, stub, stratIdx, ptIdx, results, model, answered, failed>>

(* Faulty variant: the list of _run_nary_op is dropped when it returns.    *)
CompileReturnsDropsResults ==
  /\ pc = "waiting"
  /\ outstanding # <<>>
  /\ LET p == frame
         dp == _build_data_point(p, CompileResponse(stub))
     IN  IF p.local
         THEN /\ results' = IF p.returns THEN <<>> ELSE Append(results, dp)
              /\ model' = model
         ELSE /\ model' = [model EXCEPT !.data_points = Append(@, dp)]
              /\ results' = results
  /\ outstanding' = Tail(outstanding)
  /\ answered' = answered + 1
  /\ ptIdx' = ptIdx + 1
  /\ pc' = "sweep"
  /\ UNCHANGED <<plan, stub, stratIdx, frame, stdout, sent, failed>>

(* stub.Compile returns: the datapoint is built and appended (to the model *)
(* or to the list of _run_nary_op, which its caller adds to the model when *)
(* the call returns), and the loop goes on.                                *)
CompileReturns ==
  /\ pc = "waiting"
  /\ outstanding # <<>>
  /\ LET p == frame
         dp == _build_data_point(p, CompileResponse(stub))
     IN  IF p.local
         THEN IF p.returns
              THEN /\ model' = [model EXCEPT !.data_points =
                                  @ \o Append(results, dp)]
                   /\ results' = <<>>
              ELSE /\ results' = Append(results, dp)
                   /\ model' = model
         ELSE /\ model' = [model EXCEPT !.data_points = Append(@, dp)]
              /\ results' = results
  /\ outstanding' = Tail(outstanding)
  /\ answered' = answered + 1
  /\ ptIdx' = ptIdx + 1
  /\ pc' = "sweep"
  /\ UNCHANGED <<plan, stub, stratIdx, frame, stdout, sent, failed>>

(* Faulty variant: the exception is caught and the sweep goes on with the  *)
(* next point.                                                             *)
CompileRaisesSwallowed ==
  /\ pc = "waiting"
  /\ outstanding # <<>>
  /\ outstanding' = Tail(outstanding)
  /\ failed' = failed + 1
  /\ ptIdx' = ptIdx + 1
  /\ pc' = "sweep"
  /\ UNCHANGED <<plan, stub, stratIdx, frame, results, model, stdout, sent,
                 answered>>

(* stub.Compile raises: nothing catches the exception up to main.          *)
CompileRaises ==
  /\ pc = "waiting"
  /\ outstanding # <<>>
  /\ outstanding' = Tail(outstanding)
  /\ failed' = failed + 1
  /\ pc' = "aborted"
  /\ UNCHANGED <<plan, stub, stratIdx, ptIdx, frame, results, model, stdout,
                 sent, answered>>

(* The loops of the strategy are exhausted: it returns to the driver.      *)
EndStrategy ==
  /\ pc = "sweep"
  /\ ptIdx > Len(CurrentSweep)
  /\ stratIdx' = stratIdx + 1
  /\ ptIdx' = 1
  /\ pc' = "driver"
  /\ UNCHANGED <<plan, stub, frame, results, model, stdout, outstanding, sent,
                 answered, failed>>

(* After the last strategy: the free ops are added, the schema header and  *)
(* the model are printed.                                                  *)
AddFreeOpsAndPrint ==
  /\ pc = "driver"
  /\ stratIdx > Len(plan)
  /\ model' = [model EXCEPT !.op_models = @ \o FreeEntries]
  /\ stdout' = stdout \o SchemaHeader \o <<PrintModel(model')>>
  /\ pc' = "done"
  /\ UNCHANGED <<plan, stub, stratIdx, ptIdx, frame, results, outstanding,
                 sent, answered, failed>>

Next ==
  \/ BeginStrategy
  \/ IssueRequest
  \/ CompileReturns
  \/ CompileRaises
  \/ EndStrategy
  \/ AddFreeOpsAndPrint

Spec == Init /\ [][Next]_vars

SpecAll == InitAll /\ [][Next]_vars

----------------------------------------------------------------------------
(* _build_data_point called on its own: any descriptor within the bounds,  *)
(* any histogram in the response.                                          *)

MaxBits == 3
MaxOperands == 2

Descriptors ==
  { Point("", o[1], o[2], n, w, a, <<>>, <<>>, FALSE, FALSE) :
      o \in {<<"add", "kAdd">>, <<"decode", "kDecode">>},
      n \in 1..MaxBits,
      w \in UNION {[1..k -> 1..MaxBits] : k \in 0..MaxOperands},
      a \in {<<>>, <<<<"width", "1">>>>} }

(* The call has sent its request and waits for the response.               *)
InitBuild ==
  /\ plan = <<>>
  /\ stub \in Histograms
  /\ frame \in Descriptors
  /\ pc = "waiting"
  /\ stratIdx = 1
  /\ ptIdx = 1
  /\ results = <<>>
  /\ model = [op_models |-> <<>>, data_points |-> <<>>]
  /\ stdout = <<>>
  /\ outstanding = <<BuildRequest(frame)>>
  /\ sent = 1
  /\ answered = 0
  /\ failed = 0

NextBuild ==
  \/ CompileReturns
  \/ CompileRaises

SpecBuild == InitBuild /\ [][NextBuild]_vars

----------------------------------------------------------------------------
(* Helpers of the properties.                                              *)

(* The elements of a sequence.                                             *)
Elems(q) == {q[i] : i \in 1..Len(q)}

(* The positions of the op-model entries for op.                           *)
EntriesOf(op) == {i \in 1..Len(model.op_models) : model.op_models[i].op = op}

(* The datapoints of operation kop, in the order of the record.            *)
DataPointsOf(kop) ==
  SelectSeq(model.data_points, LAMBDA d : d.operation.op = kop)

(* Every loop iteration of a plan, in the order the run makes them.        *)
AllPoints(calls) == Flatten([i \in 1..Len(calls) |-> SweepTable[calls[i]]])

(* The print entries of the progress lines of the first n of those.        *)
ProgressLines(calls, n) == [i \in 1..n |-> PrintStr(AllPoints(calls)[i].line)]

(* A print entry that is a schema header line or the printed model.        *)
IsRecordOutput(e) == e \in Elems(SchemaHeader) \/ DOMAIN e = {"DelayModel"}

----------------------------------------------------------------------------
(* C1: after a successful run_characterization every operation the spec    *)
(* names as free -- kIdentity, kBitSlice, kConcat, kTuple, kTupleIndex,    *)
(* kLiteral, kParam, kReverse, kZeroExt and the array ops -- has exactly   *)
(* one op-model entry, that entry is fixed at 0, and no datapoint names    *)
(* the operation.                                                          *)
NamedFreeOps ==
  {"kIdentity", "kBitSlice", "kConcat", "kTuple", "kTupleIndex", "kLiteral",
   "kParam", "kReverse", "kZeroExt", "kArray", "kArrayConcat", "kArrayIndex"}

C1_FreeOpsOnceAtZero ==
  pc = "done" =>
    \A op \in NamedFreeOps :
      /\ Cardinality(EntriesOf(op)) = 1
      /\ \A i \in EntriesOf(op) : model.op_models[i] = FixedEntry(op, 0)
      /\ \A i \in 1..Len(model.data_points) :
           model.data_points[i].operation.op # op

----------------------------------------------------------------------------
(* C2: in the default run with a server that always answers, the sweeps    *)
(* executed are kSMul then kUMul only; in each, multiplier, multiplicand   *)
(* and result width range over exactly {2, 18, 34, 50} in a full nested    *)
(* cross product: 64 datapoints of 2 operands per category, 128 datapoints *)
(* in the record, none of another operation.                               *)
MulWidths == {2, 18, 34, 50}

MulTriple(d) ==
  <<d.operation.operands[1].bit_count, d.operation.operands[2].bit_count,
    d.operation.bit_count>>

C2_DefaultRunIsTwoMulSweeps ==
  /\ \A i \in 1..Len(model.data_points) :
       /\ model.data_points[i].operation.op \in {"kSMul", "kUMul"}
       /\ Len(model.data_points[i].operation.operands) = 2
       /\ MulTriple(model.data_points[i])
            \in MulWidths \X MulWidths \X MulWidths
  /\ pc = "done" =>
       /\ Len(model.data_points) = 128
       /\ sent = 128
       /\ \A i \in 1..64 :
            /\ model.data_points[i].operation.op = "kSMul"
            /\ model.data_points[64 + i].operation.op = "kUMul"
       /\ \A kop \in {"kSMul", "kUMul"} :
            /\ Len(DataPointsOf(kop)) = 64
            /\ {MulTriple(d) : d \in Elems(DataPointsOf(kop))}
                 = MulWidths \X MulWidths \X MulWidths
       /\ SubSeq(model.op_models, 1, 2)
            = << LookupEntry("kSMul", Factors("mul")),
                 LookupEntry("kUMul", Factors("mul")) >>
       /\ \A i \in 3..Len(model.op_models) :
            "fixed" \in DOMAIN model.op_models[i].estimator

C2_Witness ==
  /\ pc = "done"
  /\ failed = 0
  /\ Len(model.data_points) = 128
  /\ MulTriple(model.data_points[128]) = <<50, 50, 50>>

----------------------------------------------------------------------------
(* C3: when the synthesis request of a sweep point fails the run aborts    *)
(* there: the request is not retried, no request for a later point is      *)
(* issued, and neither a schema header nor a ModelRecord (complete or      *)
(* partial) is emitted.                                                    *)
C3_FailureAbortsRun ==
  failed > 0 =>
    /\ pc = "aborted"
    /\ failed = 1
    /\ sent = answered + 1
    /\ outstanding = <<>>
    /\ \A i \in 1..Len(stdout) : ~IsRecordOutput(stdout[i])

C3_Witness ==
  /\ pc = "aborted"
  /\ failed = 1
  /\ answered = 70
  /\ Len(model.data_points) = 70

----------------------------------------------------------------------------
(* C4 as stated: nothing reaches standard output before every sweep point  *)
(* has been synthesized; a failed run has written nothing, a successful    *)
(* run exactly the two schema comment lines and the serialized record.     *)
C4_NothingBeforeCompletion ==
  /\ pc # "done" => stdout = <<>>
  /\ pc = "done" => stdout = SchemaHeader \o <<PrintModel(model)>>

(* C4 amended: before every sweep point's request one progress comment     *)
(* line is printed, and nothing else is printed before every point has     *)
(* been synthesized: a failed run has written exactly the progress lines   *)
(* of the points requested so far, a successful run the progress lines of  *)
(* all points followed by the two schema comment lines and the serialized  *)
(* record.                                                                 *)
C4_OnlyProgressBeforeCompletion ==
  /\ pc # "done" => stdout = ProgressLines(plan, sent)
  /\ pc = "done" =>
       stdout = ProgressLines(plan, Len(AllPoints(plan)))
                  \o SchemaHeader \o <<PrintModel(model)>>

C4_Witness ==
  /\ pc = "aborted"
  /\ sent = 3
  /\ stdout = << PrintStr("# mul: smul, 2 * 2 -> 2"),
                 PrintStr("# mul: smul, 2 * 2 -> 18"),
                 PrintStr("# mul: smul, 2 * 2 -> 34") >>

----------------------------------------------------------------------------
(* The number of loop iterations of the calls of the plan before call k.   *)
RECURSIVE PointsBefore(_)
PointsBefore(k) ==
  IF k <= 1 THEN 0
  ELSE PointsBefore(k - 1) + Len(SweepTable[plan[k - 1]])

(* C5 as stated: at most one request is outstanding and the number of      *)
(* datapoints in the record always equals the number of requests answered  *)
(* (every response is appended to the record before the next request).     *)
C5_RecordCountsAnswers ==
  /\ Len(outstanding) <= 1
  /\ Len(model.data_points) = answered

(* What holds of the requests in every state: none overlap, each answered  *)
(* one has its datapoint in the record or in the list of _run_nary_op, and *)
(* the requests sent are those of the points visited so far.               *)
C5_State ==
  /\ Len(outstanding) <= 1
  /\ Len(outstanding) = sent - answered - failed
  /\ Len(model.data_points) + Len(results) = answered
  /\ pc \in {"sweep", "waiting"} =>
       sent = PointsBefore(stratIdx) + (ptIdx - 1) + Len(outstanding)
  /\ pc = "driver" => sent = PointsBefore(stratIdx) /\ results = <<>>
  /\ pc = "done" =>
       /\ sent = Len(AllPoints(plan))
       /\ Len(model.data_points) = sent

(* What holds of every step: a request is sent only when every earlier one *)
(* has been answered and its datapoint appended; an answer appends the     *)
(* datapoint of the point whose request is outstanding.                    *)
C5_Step ==
  /\ sent' # sent =>
       /\ sent' = sent + 1
       /\ outstanding = <<>>
       /\ answered = sent
       /\ outstanding' = <<BuildRequest(CurrentPoint)>>
  /\ answered' # answered =>
       /\ answered' = answered + 1
       /\ outstanding = <<BuildRequest(CurrentPoint)>>
       /\ model'.data_points \o results'
            = Append(model.data_points \o results,
                     _build_data_point(CurrentPoint, CompileResponse(stub)))

(* C5 amended: every sweep point triggers exactly one request and requests *)
(* never overlap; the next point's request is issued only after the        *)
(* previous response has been turned into a datapoint and appended -- to   *)
(* the record, or, in the strategies built on _run_nary_op (binary, unary, *)
(* n-ary), to that call's result list, which is added to the record when   *)
(* the call returns; the datapoints of the record and of that list         *)
(* together always number the requests answered, the i-th coming from the  *)
(* i-th request in enumeration order.                                      *)
C5_OneRequestPerPointInOrder == []C5_State /\ [][C5_Step]_vars

C5_Witness ==
  /\ pc = "waiting"
  /\ CurrentCall.fn = "nary"
  /\ Len(results) = 5
  /\ answered > Len(model.data_points)

----------------------------------------------------------------------------
(* C6: for every descriptor and every response, _build_data_point returns  *)
(* a datapoint whose area is the histogram count under "SB_LUT4" when that *)
(* key is present (count 7 gives 7) and 0 when it is absent, and whose     *)
(* operation name, result width and ordered operand widths are those of    *)
(* the descriptor whatever the response holds.                             *)
C6_AreaFromLutCountRestFromDescriptor ==
  (pc = "sweep" /\ answered = 1) =>
    /\ Len(model.data_points) = 1
    /\ LET dp == model.data_points[1]
       IN  /\ "SB_LUT4" \in DOMAIN stub => dp.delay = stub["SB_LUT4"]
           /\ "SB_LUT4" \notin DOMAIN stub => dp.delay = 0
           /\ dp.operation.op = frame.kop
           /\ dp.operation.bit_count = frame.num_node_bits
           /\ Len(dp.operation.operands) = Len(frame.num_operand_bits)
           /\ \A i \in 1..Len(frame.num_operand_bits) :
                dp.operation.operands[i].bit_count = frame.num_operand_bits[i]

C6_Witness ==
  /\ pc = "sweep"
  /\ answered = 1
  /\ DOMAIN stub = {"SB_LUT4", "SB_CARRY"}
  /\ stub["SB_LUT4"] = 7
  /\ stub["SB_CARRY"] = 3
  /\ frame.num_operand_bits = <<3, 1>>
  /\ model.data_points[1].delay = 7

----------------------------------------------------------------------------
(* ceil(log2(v)) for v >= 1: the least n with 2^n >= v.                    *)
RECURSIVE CeilLog2(_)
CeilLog2(v) == IF v <= 1 THEN 0 ELSE 1 + CeilLog2((v + 1) \div 2)

(* The strategy call for kop has just returned to the driver.              *)
JustCompleted(kop) ==
  /\ pc = "driver"
  /\ stratIdx > 1
  /\ plan[stratIdx - 1].kop = kop

(* A request for kop is in flight.                                         *)
Requesting(kop) == pc = "waiting" /\ frame.kop = kop

OperandBits(d) ==
  [i \in 1..Len(d.operation.operands) |-> d.operation.operands[i].bit_count]

(* The node_bits the dynamic-slice sweep visits for a given input width.   *)
SliceWidths(input_bits) == {n \in 1..(input_bits - 1) : (n - 1) % 4 = 0}

(* The dynamic-slice strategy visits exactly the points with start_bits in *)
(* S, input_bits = 2^start_bits and node_bits in [1, input_bits) step 4;   *)
(* each yields one datapoint of result width node_bits with the operands   *)
(* [input_bits, start_bits], requested with width = node_bits.             *)
DynamicSliceVisits(S) ==
  /\ Requesting("kDynamicBitSlice") =>
       /\ \E start_bits \in S :
            /\ frame.num_operand_bits = <<2 ^ start_bits, start_bits>>
            /\ frame.num_node_bits \in SliceWidths(2 ^ start_bits)
       /\ frame.attributes = << <<"width", str(frame.num_node_bits)>> >>
  /\ JustCompleted("kDynamicBitSlice") =>
       LET got == DataPointsOf("kDynamicBitSlice")
           want == UNION { { <<<<2 ^ sb, sb>>, n>> : n \in SliceWidths(2 ^ sb) }
                           : sb \in S }
       IN  /\ {<<OperandBits(d), d.operation.bit_count>> : d \in Elems(got)}
                = want
           /\ Len(got) = Cardinality(want)

(* C7 as stated: start_bits in [2, ceil(log2(64))) step 4.                 *)
C7_StartBitsBelowCeilLog2 ==
  DynamicSliceVisits(Elems(Range(2, CeilLog2(64), 4)))

(* C7 amended: the dynamic-slice strategy visits exactly the points with   *)
(* start_bits in [2, 7) step 4, that is 2 and 6 (7 is the bit length of    *)
(* 64), and for each input_bits = 2^start_bits and node_bits in            *)
(* [1, input_bits) step 4; every point yields one datapoint with result    *)
(* width node_bits, the two operands [input_bits, start_bits] in that      *)
(* order, and a width attribute equal to node_bits.                        *)
C7_StartBitsTwoAndSix == DynamicSliceVisits({2, 6})

C7_Witness ==
  /\ Requesting("kDynamicBitSlice")
  /\ frame.num_operand_bits = <<64, 6>>
  /\ frame.num_node_bits = 61

----------------------------------------------------------------------------
(* The wide widths of the encode and decode sweeps: [2, 65) step 2.        *)
WideWidths == {w \in 2..64 : w % 2 = 0}

(* For every wide width w the encode strategy produces a datapoint with    *)
(* one operand of width w and result width Narrow(w), the decode strategy  *)
(* a datapoint of result width w, requested with width = w, with one       *)
(* operand of width Narrow(w).                                             *)
EncodeDecodeWidths(Narrow(_)) ==
  /\ Requesting("kEncode") =>
       /\ Len(frame.num_operand_bits) = 1
       /\ frame.num_operand_bits[1] \in WideWidths
       /\ frame.num_node_bits = Narrow(frame.num_operand_bits[1])
  /\ JustCompleted("kEncode") =>
       /\ {<<OperandBits(d), d.operation.bit_count>> :
             d \in Elems(DataPointsOf("kEncode"))}
            = {<< <<w>>, Narrow(w) >> : w \in WideWidths}
       /\ Len(DataPointsOf("kEncode")) = Cardinality(WideWidths)
  /\ Requesting("kDecode") =>
       /\ frame.num_node_bits \in WideWidths
       /\ frame.attributes = << <<"width", str(frame.num_node_bits)>> >>
       /\ frame.num_operand_bits = <<Narrow(frame.num_node_bits)>>
  /\ JustCompleted("kDecode") =>
       /\ {<<OperandBits(d), d.operation.bit_count>> :
             d \in Elems(DataPointsOf("kDecode"))}
            = {<< <<Narrow(w)>>, w >> : w \in WideWidths}
       /\ Len(DataPointsOf("kDecode")) = Cardinality(WideWidths)

(* C8 as stated: the narrow width is ceil(log2(w - 1)).                    *)
C8_NarrowIsCeilLog2OfWMinus1 ==
  EncodeDecodeWidths(LAMBDA w : CeilLog2(w - 1))

(* C8 amended: for every wide width w in [2, 65) step 2 the encode         *)
(* strategy produces a datapoint with one operand of width w and result    *)
(* width ceil(log2(w)) (the bit length of w - 1), and the decode strategy  *)
(* a datapoint with result width w, a width attribute equal to w, and one  *)
(* operand of width ceil(log2(w)).                                         *)
C8_NarrowIsCeilLog2OfW == EncodeDecodeWidths(LAMBDA w : CeilLog2(w))

C8_Witness ==
  /\ Requesting("kEncode")
  /\ frame.num_operand_bits = <<2>>
  /\ frame.num_node_bits = 1

----------------------------------------------------------------------------
IsPowerOfTwo(n) == \E k \in 0..n : 2 ^ k = n

(* The shape of a select descriptor: d is the descriptor, n its number of  *)
(* cases.  Operand and span indices count from 0, as in the source.        *)
SelectShape(d, n) ==
  LET operands == d.num_operand_bits
      Operand(k) == operands[k + 1]
  IN  /\ Operand(0) = CeilLog2(n)
      /\ d.operand_span_attributes = << <<"cases", 1, n>> >>
      /\ 1 + n <= Len(operands)
      /\ \A k \in 1..n : Operand(k) = d.num_node_bits
      /\ IF IsPowerOfTwo(n)
         THEN /\ Len(operands) = 1 + n
              /\ d.operand_attributes = <<>>
         ELSE /\ Len(operands) = 2 + n
              /\ d.operand_attributes = << <<"default", n + 1>> >>
              /\ n + 1 < Len(operands)
              /\ Operand(n + 1) = d.num_node_bits

SelectCases == {n \in 2..15 : n % 2 = 0}

SelectWidths == {b \in 1..64 : b % 2 = 1}

(* C9: in every select descriptor the selector is operand 0 of width       *)
(* ceil(log2(num_cases)) and the cases attribute spans operands            *)
(* 1..num_cases, all of width bit_count; for a power of two there are      *)
(* 1 + num_cases operands and no default attribute (4 cases: selector      *)
(* width 2), otherwise 2 + num_cases operands and one default attribute    *)
(* referring to the operand right after the case span (5 cases: selector   *)
(* width 3); every span and reference index lies in the operand list.  The *)
(* sweep visits num_cases in [2, 16) step 2 for each bit_count in [1, 65)  *)
(* step 2.                                                                 *)
C9_SelectDescriptorShape ==
  /\ Requesting("kSel") =>
       /\ \E n \in SelectCases : SelectShape(frame, n)
       /\ frame.num_node_bits \in SelectWidths
       /\ \A n \in 2..15 :
            SelectShape(_run_select_op_point("sel", "kSel", n,
                                             frame.num_node_bits), n)
       /\ _run_select_op_point("sel", "kSel", 4, 1).num_operand_bits
            = <<2, 1, 1, 1, 1>>
       /\ _run_select_op_point("sel", "kSel", 5, 1).num_operand_bits
            = <<3, 1, 1, 1, 1, 1, 1>>
  /\ JustCompleted("kSel") =>
       /\ {<<OperandBits(d), d.operation.bit_count>> :
             d \in Elems(DataPointsOf("kSel"))}
            = { << <<CeilLog2(n)>>
                     \o Repeat(b, IF IsPowerOfTwo(n) THEN n ELSE n + 1), b >> :
                  n \in SelectCases, b \in SelectWidths }
       /\ Len(DataPointsOf("kSel"))
            = Cardinality(SelectCases) * Cardinality(SelectWidths)

C9_Witness ==
  /\ Requesting("kSel")
  /\ frame.operand_attributes = << <<"default", 7>> >>
  /\ frame.num_operand_bits = <<3, 5, 5, 5, 5, 5, 5, 5>>

----------------------------------------------------------------------------
(* The number of strategy calls that have added their op-model entry.      *)
CallsBegun == IF pc \in {"driver", "done"} THEN stratIdx - 1 ELSE stratIdx

(* C10: when a strategy call completes the record holds exactly one        *)
(* op-model entry added by it, for its operation, with the category's      *)
(* factors in declaration order (multiply: result bit width, operand 0     *)
(* bit width, operand 1 bit width; sign-extend: result bit width, operand  *)
(* 0 bit width), however many datapoints the sweep has appended; no later  *)
(* iteration or strategy adds to or changes the entry.                     *)
C10_OneEntryPerCallFactorsInOrder ==
  /\ Len(model.op_models)
       = CallsBegun + (IF pc = "done" THEN Len(FREE_OPS) ELSE 0)
  /\ \A k \in 1..CallsBegun :
       LET entry == model.op_models[k]
       IN  /\ entry = LookupEntry(plan[k].kop, Factors(plan[k].fn))
           /\ plan[k].fn = "mul" =>
                entry.estimator.lookup.factors
                  = << [source |-> "RESULT_BIT_COUNT"],
                       [source |-> "OPERAND_BIT_COUNT", operand_number |-> 0],
                       [source |-> "OPERAND_BIT_COUNT", operand_number |-> 1] >>
           /\ plan[k].fn = "sign_ext" =>
                entry.estimator.lookup.factors
                  = << [source |-> "RESULT_BIT_COUNT"],
                       [source |-> "OPERAND_BIT_COUNT", operand_number |-> 0] >>

C10_Witness ==
  /\ JustCompleted("kUMul")
  /\ plan = DefaultPlan
  /\ Len(model.op_models) = 2
  /\ model.op_models[1].op = "kSMul"
  /\ Len(model.data_points) = 128

----------------------------------------------------------------------------
(* The datapoint the last answered request produced: the newest element of *)
(* the list of _run_nary_op while its call runs, of the model otherwise.   *)
LastDataPoint ==
  IF results # <<>>
  THEN results[Len(results)]
  ELSE model.data_points[Len(model.data_points)]

(* Zero-based number of the inner sweep (one pass over the 32 bit counts   *)
(* 1, 3, .., 63) the last answered request belongs to.                     *)
InnerSweepNumber == (ptIdx - 2) \div 32

(* C11: every datapoint a sweep strategy produces has the operand count of *)
(* its category: unary ops 1 operand and binary ops 2, each as wide as the *)
(* result; an n-ary run with N inputs (N = 1, 3, .., 15) N operands, each  *)
(* as wide as the result; reduction ops 1 operand and comparison ops 2     *)
(* operands of equal width, with result width 1; one-hot-select            *)
(* 1 + num_cases operands, the first (the selector) num_cases wide;        *)
(* encode, decode, one-hot (result one bit wider than the operand) and     *)
(* sign-extend 1 operand; dynamic-slice and multiply 2 operands.           *)
C11_OperandCountMatchesCategory ==
  /\ (pc = "sweep" /\ ptIdx > 1) =>
       LET d == LastDataPoint
           width == d.operation.bit_count
           operands == OperandBits(d)
           fn == CurrentCall.fn
       IN  /\ d.operation.op = CurrentCall.kop
           /\ fn = "unary" => operands = <<width>>
           /\ fn = "bin" => operands = <<width, width>>
           /\ fn = "nary" =>
                LET N == 1 + 2 * InnerSweepNumber
                IN  /\ Len(operands) = N
                    /\ \A i \in 1..N : operands[i] = width
           /\ fn = "reduction" => width = 1 /\ Len(operands) = 1
           /\ fn = "comparison" =>
                /\ width = 1
                /\ Len(operands) = 2
                /\ operands[1] = operands[2]
           /\ fn = "one_hot_select" =>
                LET num_cases == 2 + 2 * InnerSweepNumber
                IN  /\ Len(operands) = 1 + num_cases
                    /\ operands[1] = num_cases
                    /\ \A i \in 2..(1 + num_cases) : operands[i] = width
           /\ fn \in {"encode", "decode", "sign_ext"} => Len(operands) = 1
           /\ fn = "one_hot" => operands = <<width - 1>>
           /\ fn \in {"dynamic_bit_slice", "mul"} => Len(operands) = 2
  /\ (pc = "driver" /\ stratIdx > 1 /\ plan[stratIdx - 1].fn = "nary") =>
       {Len(OperandBits(d)) :
          d \in Elems(DataPointsOf(plan[stratIdx - 1].kop))}
         = {n \in 1..15 : n % 2 = 1}

C11_Witness ==
  /\ pc = "sweep"
  /\ Len(plan) = 1
  /\ CurrentCall.fn = "nary"
  /\ ptIdx = 34
  /\ OperandBits(LastDataPoint) = <<1, 1, 1>>

====
